---- MODULE Spec2Model ----
(***************************************************************************)
(* Model of pkg/tracing/tracing.go: the Tracer facade over the zipkin-go   *)
(* engine.  Objects live on heaps (sequences); a pointer is an index into  *)
(* its heap and 0 is the nil pointer.  A pointer to a Spec or ZipkinSpec   *)
(* is a sequence of length 0 (nil) or 1 (the struct).  Errors are strings, *)
(* "nil" being the nil error.  sampleRate is kept in units of 1/100000 so  *)
(* that the thresholds of the boundary sampler (0.0001 and 1) are the      *)
(* integers 10 and 100000.                                                 *)
(***************************************************************************)
EXTENDS Integers, Sequences, FiniteSets, TLC

VARIABLES tracers, engines, reporters, spans, clock, pc, local, held, last,
          specOf, madeBy, crashed

vars == <<tracers, engines, reporters, spans, clock, pc, local, held, last,
          specOf, madeBy, crashed>>

(* ------------------------------ bounds -------------------------------- *)
MaxTracers == 2
MaxSpans == 2
MaxClock == 1
MaxCloseCalls == 1

(* ------------------------------ inputs -------------------------------- *)
Workers == {"w1", "w2"}
Names == {"a"}
Times == {0, MaxClock + 1}

ServiceNames == {"", "svc"}
Hostports == {"", "localhost:9411", "not-an-endpoint"}
ServerURLs == {"http://collector:9411", "://bad"}
Rates == {-100000, 0, 5, 50000, 100000, 200000}
TagMaps == {{}, {<<"env", "prod">>}}

ZipkinSpecs ==
    [Hostport : Hostports, ServerURL : ServerURLs, DisableReport : BOOLEAN,
     SampleRate : Rates, SameSpan : BOOLEAN, ID128Bit : BOOLEAN]

ZipkinPtrs == {<<>>} \cup {<<z>> : z \in ZipkinSpecs}

Specs == [ServiceName : ServiceNames, Tags : TagMaps, Zipkin : ZipkinPtrs]

SpecPtrs == {<<>>} \cup {<<s>> : s \in Specs}

(* The specs the span lifecycle is exercised with. *)
LifecycleZipkin ==
    {z \in ZipkinSpecs : /\ z.Hostport = ""
                         /\ z.ServerURL = "http://collector:9411"
                         /\ z.SampleRate \in {0, 100000}
                         /\ (z.SampleRate = 0 => ~z.DisableReport)
                         /\ z.SameSpan = FALSE
                         /\ z.ID128Bit = FALSE}

LifecycleSpecPtrs ==
    {<<>>} \cup {<<[ServiceName |-> "svc", Tags |-> {}, Zipkin |-> <<z>>]>> :
                    z \in LifecycleZipkin}

(* --------------------------- the libraries ---------------------------- *)
\* The hostports the resolver of zipkingo.NewEndpoint accepts.
ResolvableHostports == {"localhost:9411"}

\* The URLs that are well-formed collector addresses.
ValidServerURLs == {"http://collector:9411"}

\* zipkingo.NewEndpoint: the error result.
NewEndpointErr(serviceName, hostPort) ==
    IF hostPort = "" THEN "nil"
    ELSE IF hostPort \in ResolvableHostports THEN "nil"
    ELSE "errEndpoint"

\* zipkingo.NewEndpoint: the endpoint (nil when every property is empty).
NewEndpoint(serviceName, hostPort) ==
    IF hostPort = "" /\ serviceName = "" THEN <<>>
    ELSE <<[ServiceName |-> serviceName, HostPort |-> hostPort]>>

\* zipkingo.NewBoundarySampler: the error result.
NewBoundarySamplerErr(rate) ==
    IF rate = 0 \/ rate = 100000 THEN "nil"
    ELSE IF rate < 10 \/ rate > 100000 THEN "errRate"
    ELSE "nil"

\* zipkingo.NewBoundarySampler: the sampler.
NewBoundarySampler(rate, salt) ==
    IF rate = 0 THEN [kind |-> "never", boundary |-> 0, salt |-> 0]
    ELSE IF rate = 100000 THEN [kind |-> "always", boundary |-> 0, salt |-> 0]
    ELSE [kind |-> "boundary", boundary |-> rate \div 10, salt |-> salt]

\* The sampling decisions a sampler can take for a fresh random trace id.
Decisions(sampler) ==
    IF sampler.kind = "never" THEN {FALSE}
    ELSE IF sampler.kind = "always" THEN {TRUE}
    ELSE BOOLEAN

(* ------------------------------ init ---------------------------------- *)
NoopTracer == 1
NoopSpan == 1

NoopReporterRec ==
    [kind |-> "noop", url |-> "", sends |-> 0, queue |-> 0, transmitted |-> 0,
     closeCalls |-> 0, closeResult |-> "nil"]

NoopEngine ==
    [reporter |-> 1, noop |-> TRUE, localEndpoint |-> <<>>,
     sharedSpans |-> TRUE, traceID128Bit |-> FALSE,
     sampler |-> [kind |-> "always", boundary |-> 0, salt |-> 0],
     tags |-> {}, started |-> 1]

NoopTracerRec == [tracer |-> 1, tags |-> {}, closer |-> 0]

NoopSpanRec ==
    [tracer |-> NoopTracer,
     Span |-> [engine |-> 1, name |-> "", start |-> 0, noop |-> TRUE,
               sampled |-> FALSE, finished |-> FALSE]]

NoCall == [op |-> "none", recv |-> 0, arg |-> <<>>, ret |-> 0, err |-> "nil"]

\* The NoopSpan was started by init, not by a call of a unit of work.
InitMade == [op |-> "init", recv |-> NoopTracer, name |-> "", startAt |-> 0, now |-> 0]

NoLocal == [op |-> "none", t |-> 0, name |-> "", startAt |-> 0, arg |-> 0, now |-> 0]

Init ==
    /\ reporters = <<NoopReporterRec>>
    /\ engines = <<NoopEngine>>
    /\ tracers = <<NoopTracerRec>>
    /\ spans = <<NoopSpanRec>>
    /\ clock = 0
    /\ pc = [w \in Workers |-> "idle"]
    /\ local = [w \in Workers |-> NoLocal]
    /\ held = [w \in Workers |-> 0]
    /\ last = NoCall
    /\ specOf = <<<<>>>>
    /\ madeBy = <<InitMade>>
    /\ crashed = FALSE

(* ------------------------------- New ---------------------------------- *)
\* Mutant of IsNoopTracer: a comparison of configuration, under which any
\* Tracer with a discarding Reporter counts as noop.
IsNoopTracerByReporter(t) ==
    reporters[engines[tracers[t].tracer].reporter].kind = "noop"

\* Tracer.IsNoopTracer: pointer identity with the shared NoopTracer.
IsNoopTracer(t) == t = NoopTracer

\* Mutant of ReporterKind: the HTTP Reporter is selected unconditionally.
ReporterKindAlwaysHTTP(z) == "http"

\* New, lines 96-101: the Reporter New selects.
ReporterKind(z) == IF z.DisableReport THEN "noop" ELSE "http"

\* The Reporter New constructs for a ZipkinSpec.
NewReporter(z) ==
    [kind |-> ReporterKind(z),
     url |-> IF ReporterKind(z) = "http" THEN z.ServerURL ELSE "",
     sends |-> 0, queue |-> 0, transmitted |-> 0,
     closeCalls |-> 0, closeResult |-> "nil"]

\* Mutant of ConfigErr: the endpoint is resolved from serverURL instead of
\* hostport.
ConfigErrWrongField(s, z) ==
    IF NewEndpointErr(s.ServiceName, z.ServerURL) # "nil"
    THEN NewEndpointErr(s.ServiceName, z.ServerURL)
    ELSE NewBoundarySamplerErr(z.SampleRate)

\* New, lines 86-94: the first error of endpoint and sampler construction.
ConfigErr(s, z) ==
    IF NewEndpointErr(s.ServiceName, z.Hostport) # "nil"
    THEN NewEndpointErr(s.ServiceName, z.Hostport)
    ELSE NewBoundarySamplerErr(z.SampleRate)

\* New, lines 102-112: the error of zipkingo.NewTracer, which the engine
\* decides (engineFails is the library's answer).
EngineErr(engineFails) == IF engineFails THEN "errEngine" ELSE "nil"

\* New, lines 102-109: the engine New configures.
NewEngine(s, z, rep, now) ==
    [reporter |-> rep, noop |-> FALSE,
     localEndpoint |-> NewEndpoint(s.ServiceName, z.Hostport),
     sharedSpans |-> z.SameSpan, traceID128Bit |-> z.ID128Bit,
     sampler |-> NewBoundarySampler(z.SampleRate, now),
     tags |-> s.Tags, started |-> 0]

\* New, lines 114-117: the Tracer New allocates.
NewTracerRec(eng, rep) == [tracer |-> eng, tags |-> {}, closer |-> rep]

\* New, line 117 and line 83: the pointer New returns on success.
BuiltTracer(specPtr, fresh) == IF specPtr = <<>> THEN NoopTracer ELSE fresh

New(specPtr, engineFails) ==
    /\ ~crashed
    /\ Len(reporters) <= MaxTracers
    /\ UNCHANGED <<spans, clock, pc, local, held, madeBy>>
    /\ IF specPtr = <<>>
       THEN /\ last' = [op |-> "New", recv |-> 0, arg |-> specPtr,
                        ret |-> BuiltTracer(specPtr, 0), err |-> "nil"]
            /\ UNCHANGED <<tracers, engines, reporters, specOf, crashed>>
       ELSE LET s == specPtr[1] IN
         IF s.Zipkin = <<>>
         THEN \* line 86 dereferences the nil Zipkin pointer
              /\ crashed' = TRUE
              /\ last' = [op |-> "New", recv |-> 0, arg |-> specPtr,
                          ret |-> 0, err |-> "panic"]
              /\ UNCHANGED <<tracers, engines, reporters, specOf>>
         ELSE LET z == s.Zipkin[1] IN
           IF ConfigErr(s, z) # "nil"
           THEN /\ last' = [op |-> "New", recv |-> 0, arg |-> specPtr,
                            ret |-> 0, err |-> ConfigErr(s, z)]
                /\ UNCHANGED <<tracers, engines, reporters, specOf, crashed>>
           ELSE LET rep == Len(reporters) + 1 IN
             /\ reporters' = Append(reporters, NewReporter(z))
             /\ UNCHANGED crashed
             /\ IF EngineErr(engineFails) # "nil"
                THEN /\ last' = [op |-> "New", recv |-> 0, arg |-> specPtr,
                                 ret |-> 0, err |-> EngineErr(engineFails)]
                     /\ UNCHANGED <<tracers, engines, specOf>>
                ELSE /\ engines' = Append(engines, NewEngine(s, z, rep, clock))
                     /\ tracers' = Append(tracers,
                                     NewTracerRec(Len(engines) + 1, rep))
                     /\ specOf' = Append(specOf, specPtr)
                     /\ last' = [op |-> "New", recv |-> 0, arg |-> specPtr,
                                 ret |-> BuiltTracer(specPtr, Len(tracers) + 1),
                                 err |-> "nil"]

(* ----------------------------- Validate ------------------------------- *)
\* Mutant of Validate: the sample rate is validated as well.
ValidateWithRate(z) ==
    IF z.Hostport # "" /\ NewEndpointErr("", z.Hostport) # "nil"
    THEN NewEndpointErr("", z.Hostport)
    ELSE NewBoundarySamplerErr(z.SampleRate)

\* ZipkinSpec.Validate: the error it returns.
Validate(z) ==
    IF z.Hostport # "" THEN NewEndpointErr("", z.Hostport) ELSE "nil"

CallValidate(z) ==
    /\ ~crashed
    /\ last' = [op |-> "Validate", recv |-> 0, arg |-> <<z>>, ret |-> 0,
                err |-> Validate(z)]
    /\ UNCHANGED <<tracers, engines, reporters, spans, clock, pc, local, held,
                   specOf, madeBy, crashed>>

(* ------------------------------ Close --------------------------------- *)
\* Tracer.Close: whether Close delegates to the closer.
HasCloser(t) == tracers[t].closer # 0

\* Mutant of CloseErr: the closer's error is swallowed.
CloseErrSwallowed(t, closerResult) == "nil"

\* Tracer.Close: the error Close returns, given the closer's answer.
CloseErr(t, closerResult) == IF HasCloser(t) THEN closerResult ELSE "nil"

\* The answers the Close of a Reporter can give.
CloserResults(kind) == IF kind = "noop" THEN {"nil"} ELSE {"nil", "errClose"}

Close(t, closerResult) ==
    /\ ~crashed
    /\ t \in 1..Len(tracers)
    /\ IF HasCloser(t)
       THEN LET r == tracers[t].closer IN
            /\ reporters[r].closeCalls < MaxCloseCalls
            /\ closerResult \in CloserResults(reporters[r].kind)
            /\ reporters' = [reporters EXCEPT
                               ![r].closeCalls = @ + 1,
                               ![r].closeResult = closerResult,
                               ![r].transmitted = @ + reporters[r].queue,
                               ![r].queue = 0]
       ELSE /\ closerResult = "nil"
            /\ UNCHANGED reporters
    /\ last' = [op |-> "Close", recv |-> t, arg |-> <<>>, ret |-> 0,
                err |-> CloseErr(t, closerResult)]
    /\ UNCHANGED <<tracers, engines, spans, clock, pc, local, held, specOf,
                   madeBy, crashed>>

\* fasttime: the coarse clock advances in the background.
Tick ==
    /\ ~crashed
    /\ clock < MaxClock
    /\ clock' = clock + 1
    /\ UNCHANGED <<tracers, engines, reporters, spans, pc, local, held, last,
                   specOf, madeBy, crashed>>

(* --------------------------- span creation ---------------------------- *)
\* Mutant of StartTime: a start time in the future is clamped to the clock.
StartTimeClamped(startAt) == IF startAt > clock THEN clock ELSE startAt

\* Mutant of SpanTracer: the span refers back to the NoopTracer.
SpanTracerNoop(t) == NoopTracer

\* Mutant of NewSpanPtr: the first span object is handed out again.
NewSpanPtrReused(fresh) == IF fresh > 2 THEN 2 ELSE fresh

\* newSpanWithStart, line 151: the start time handed to the engine.
StartTime(startAt) == startAt

\* newSpanWithStart, line 152: the back-reference of the wrapping span.
SpanTracer(t) == t

\* newSpanWithStart, line 152: the freshly allocated span object.
NewSpanPtr(fresh) == fresh

\* The spans that are allocated or about to be.
Pending == Cardinality({w \in Workers : pc[w] = "start"})

\* Tracer.NewSpan up to the call of newSpanWithStart: fasttime.Now() is read
\* before newSpanWithStart runs.
NewSpan(w, t, name) ==
    /\ ~crashed
    /\ pc[w] = "idle" /\ held[w] = 0
    /\ t \in 1..Len(tracers)
    /\ IF IsNoopTracer(t)
       THEN /\ held' = [held EXCEPT ![w] = NoopSpan]
            /\ last' = [op |-> "NewSpan", recv |-> t, arg |-> <<>>,
                        ret |-> NoopSpan, err |-> "nil"]
            /\ UNCHANGED <<pc, local>>
       ELSE /\ Len(spans) + Pending <= MaxSpans
            /\ pc' = [pc EXCEPT ![w] = "start"]
            /\ local' = [local EXCEPT ![w] =
                           [op |-> "NewSpan", t |-> t, name |-> name,
                            startAt |-> clock, arg |-> 0, now |-> clock]]
            /\ UNCHANGED <<held, last>>
    /\ UNCHANGED <<tracers, engines, reporters, spans, clock, specOf, madeBy,
                   crashed>>

\* Tracer.NewSpanWithStart up to the call of newSpanWithStart.
NewSpanWithStart(w, t, name, startAt) ==
    /\ ~crashed
    /\ pc[w] = "idle" /\ held[w] = 0
    /\ t \in 1..Len(tracers)
    /\ IF IsNoopTracer(t)
       THEN /\ held' = [held EXCEPT ![w] = NoopSpan]
            /\ last' = [op |-> "NewSpanWithStart", recv |-> t,
                        arg |-> <<>>, ret |-> NoopSpan,
                        err |-> "nil"]
            /\ UNCHANGED <<pc, local>>
       ELSE /\ Len(spans) + Pending <= MaxSpans
            /\ pc' = [pc EXCEPT ![w] = "start"]
            /\ local' = [local EXCEPT ![w] =
                           [op |-> "NewSpanWithStart", t |-> t, name |-> name,
                            startAt |-> startAt, arg |-> startAt,
                            now |-> clock]]
            /\ UNCHANGED <<held, last>>
    /\ UNCHANGED <<tracers, engines, reporters, spans, clock, specOf, madeBy,
                   crashed>>

\* Tracer.newSpanWithStart: the engine starts the span (taking the sampling
\* decision for its fresh trace id) and the span is wrapped.
newSpanWithStart(w) ==
    /\ ~crashed
    /\ pc[w] = "start"
    /\ LET t == local[w].t
           e == tracers[t].tracer
           fresh == Len(spans) + 1
       IN \E sampled \in Decisions(engines[e].sampler) :
            /\ spans' = Append(spans,
                 [tracer |-> SpanTracer(t),
                  Span |-> [engine |-> e, name |-> local[w].name,
                            start |-> StartTime(local[w].startAt),
                            noop |-> FALSE, sampled |-> sampled,
                            finished |-> FALSE]])
            /\ madeBy' = Append(madeBy,
                 [op |-> local[w].op, recv |-> t, name |-> local[w].name,
                  startAt |-> local[w].arg, now |-> local[w].now])
            /\ engines' = [engines EXCEPT ![e].started = @ + 1]
            /\ held' = [held EXCEPT ![w] = NewSpanPtr(fresh)]
            /\ last' = [op |-> local[w].op, recv |-> t,
                        arg |-> <<>>,
                        ret |-> NewSpanPtr(fresh), err |-> "nil"]
    /\ pc' = [pc EXCEPT ![w] = "idle"]
    /\ local' = [local EXCEPT ![w] = NoLocal]
    /\ UNCHANGED <<tracers, reporters, clock, specOf, crashed>>

(* -------------------------- span finalization ------------------------- *)
\* Reporter.Send: the discarding Reporter drops the record, the HTTP
\* Reporter queues it for its background sender.
Send(rep) ==
    IF rep.kind = "http"
    THEN [rep EXCEPT !.sends = @ + 1, !.queue = @ + 1]
    ELSE [rep EXCEPT !.sends = @ + 1]

\* Span finalization: a sampled span of a live engine is handed to the
\* Reporter of its engine exactly once; the NoopSpan's finalization does
\* nothing.  The unit of work gives the span up.
Finish(w) ==
    /\ ~crashed
    /\ pc[w] = "idle" /\ held[w] # 0
    /\ LET sp == held[w]
           r  == engines[spans[sp].Span.engine].reporter
       IN IF spans[sp].Span.noop \/ spans[sp].Span.finished
          THEN UNCHANGED <<spans, reporters>>
          ELSE /\ spans' = [spans EXCEPT ![sp].Span.finished = TRUE]
               /\ IF spans[sp].Span.sampled
                  THEN reporters' = [reporters EXCEPT ![r] = Send(@)]
                  ELSE UNCHANGED reporters
    /\ held' = [held EXCEPT ![w] = 0]
    /\ last' = [op |-> "Finish", recv |-> 0, arg |-> <<>>, ret |-> 0,
                err |-> "nil"]
    /\ UNCHANGED <<tracers, engines, clock, pc, local, specOf, madeBy, crashed>>

\* The HTTP Reporter's background sender transmits the queued records.
Transmit(r) ==
    /\ ~crashed
    /\ r \in 1..Len(reporters)
    /\ reporters[r].kind = "http"
    /\ reporters[r].queue > 0
    /\ reporters' = [reporters EXCEPT ![r].transmitted = @ + reporters[r].queue,
                                      ![r].queue = 0]
    /\ UNCHANGED <<tracers, engines, spans, clock, pc, local, held, last,
                   specOf, madeBy, crashed>>

(* --------------------------- specifications --------------------------- *)
\* The running service: tracers are built, closed and used by concurrent
\* units of work.
Next ==
    \/ \E sp \in LifecycleSpecPtrs, f \in BOOLEAN : New(sp, f)
    \/ \E t \in 1..(MaxTracers + 1), cr \in {"nil", "errClose"} : Close(t, cr)
    \/ \E w \in Workers, t \in 1..(MaxTracers + 1), n \in Names :
          NewSpan(w, t, n)
    \/ \E w \in Workers, t \in 1..(MaxTracers + 1), n \in Names, at \in Times :
          NewSpanWithStart(w, t, n, at)
    \/ \E w \in Workers : newSpanWithStart(w)
    \/ \E w \in Workers : Finish(w)
    \/ \E r \in 1..(MaxTracers + 1) : Transmit(r)
    \/ Tick

Spec == Init /\ [][Next]_vars

\* Configuration: in a service that has built no Tracer yet, any ZipkinSpec
\* is validated or any Spec is handed to New; the Tracer it builds can then
\* be closed.
Unconfigured == Len(reporters) = 1 /\ last.op \in {"none", "Close"}

NextCtor ==
    \/ Unconfigured /\ \E sp \in SpecPtrs, f \in BOOLEAN : New(sp, f)
    \/ Unconfigured /\ \E z \in ZipkinSpecs : CallValidate(z)
    \/ \E t \in 1..(MaxTracers + 1), cr \in {"nil", "errClose"} : Close(t, cr)
    \/ Tick

SpecCtor == Init /\ [][NextCtor]_vars

\* Tracer lifetimes alone: tracers are built and closed; no unit of work
\* asks for a span.
NextTracers ==
    \/ \E sp \in LifecycleSpecPtrs, f \in BOOLEAN : New(sp, f)
    \/ \E t \in 1..(MaxTracers + 1), cr \in {"nil", "errClose"} : Close(t, cr)
    \/ Tick

SpecTracers == Init /\ [][NextTracers]_vars

(* ------------------------------ claims -------------------------------- *)
\* The ZipkinSpec of a non-nil Spec pointer whose zipkin section is set.
ZOf(specPtr) == specPtr[1].Zipkin[1]

HasZipkin(specPtr) == specPtr # <<>> /\ specPtr[1].Zipkin # <<>>

\* The tracers New built from a spec (every tracer but the one init made).
Built == 2..Len(tracers)

\* The spans the engine started for a unit of work (every span but NoopSpan).
Started == 2..Len(spans)

SpanOps == {"NewSpan", "NewSpanWithStart"}

\* C1: New with a nil spec returns the shared NoopTracer and no error, and
\* IsNoopTracer holds of exactly the tracer init made: no Tracer New built
\* from a non-nil spec is reported as noop, also with disableReport set.
C1_NoopIdentity ==
    /\ (last.op = "New" /\ last.arg = <<>>) =>
          (last.ret = NoopTracer /\ last.err = "nil" /\ IsNoopTracer(last.ret))
    /\ (last.op = "New" /\ last.arg # <<>> /\ last.err = "nil") =>
          (last.ret \in Built /\ ~IsNoopTracer(last.ret))
    /\ \A t \in 1..Len(tracers) : IsNoopTracer(t) <=> (specOf[t] = <<>>)

C1_Witness ==
    /\ last.op = "New" /\ last.arg = <<>> /\ last.ret = NoopTracer
    /\ \E t \in Built : ZOf(specOf[t]).DisableReport /\ ~IsNoopTracer(t)

\* C2 as claimed: with disableReport=false and a valid serverURL, New
\* returns a non-error Tracer other than NoopTracer, whatever the other
\* fields are.
C2_Original ==
    (/\ last.op = "New" /\ HasZipkin(last.arg)
     /\ ~ZOf(last.arg).DisableReport
     /\ ZOf(last.arg).ServerURL \in ValidServerURLs)
    => (last.err = "nil" /\ last.ret # 0 /\ last.ret # NoopTracer)

\* The hostports and sample rates the endpoint resolver and the sampler
\* accept.
AcceptedConfig(z) ==
    /\ z.Hostport = "" \/ z.Hostport \in ResolvableHostports
    /\ z.SampleRate = 0 \/ (10 <= z.SampleRate /\ z.SampleRate <= 100000)

\* C2 amended: with disableReport=false, a valid serverURL, a hostport the
\* resolver accepts and a sampleRate the sampler accepts (0 or within
\* [0.0001, 1]), New returns a non-error Tracer other than NoopTracer, unless
\* the engine's constructor reports an error, which New returns with no
\* Tracer; serviceName, tags, sameSpan and id128Bit do not matter.
C2_Amended ==
    (/\ last.op = "New" /\ HasZipkin(last.arg)
     /\ ~ZOf(last.arg).DisableReport
     /\ ZOf(last.arg).ServerURL \in ValidServerURLs
     /\ AcceptedConfig(ZOf(last.arg)))
    => \/ last.err = "nil" /\ last.ret \in Built /\ last.ret # NoopTracer
       \/ last.err = "errEngine" /\ last.ret = 0

C2_Witness ==
    /\ last.op = "New" /\ HasZipkin(last.arg)
    /\ ~ZOf(last.arg).DisableReport
    /\ ZOf(last.arg).ServerURL \in ValidServerURLs
    /\ ZOf(last.arg).Hostport = "localhost:9411"
    /\ ZOf(last.arg).SampleRate = 50000
    /\ ZOf(last.arg).SameSpan /\ ZOf(last.arg).ID128Bit
    /\ last.arg[1].ServiceName = "" /\ last.arg[1].Tags # {}
    /\ last.err = "nil" /\ last.ret = 2

\* C3: an invalid hostport, a sampleRate outside [0,1], an invalid serverURL
\* or a failing engine construction makes New return an error and no Tracer.
C3_ConfigErrors ==
    (last.op = "New" /\ HasZipkin(last.arg)) =>
       /\ (\/ ZOf(last.arg).Hostport \notin ({""} \cup ResolvableHostports)
           \/ ZOf(last.arg).SampleRate < 0
           \/ ZOf(last.arg).SampleRate > 100000
           \/ ZOf(last.arg).ServerURL \notin ValidServerURLs)
          => (last.err # "nil" /\ last.ret = 0)
       /\ last.err = "errEngine" => last.ret = 0

\* C4: Validate returns an error exactly when hostport is non-empty and is
\* no valid endpoint, whatever the other fields are, and it leaves the
\* tracers, engines, reporters and spans as they were.
C4_Validate ==
    last.op = "Validate" =>
       LET z == last.arg[1] IN
       /\ last.err # "nil" <=>
             (z.Hostport # "" /\ z.Hostport \notin ResolvableHostports)
       /\ z.Hostport = "" => last.err = "nil"
       /\ z.Hostport = "not-an-endpoint" => last.err # "nil"
       /\ tracers = <<NoopTracerRec>> /\ engines = <<NoopEngine>>
       /\ reporters = <<NoopReporterRec>> /\ spans = <<NoopSpanRec>>

C4_Witness ==
    /\ last.op = "Validate"
    /\ last.arg[1].Hostport = ""
    /\ last.arg[1].SampleRate = 200000
    /\ last.arg[1].ServerURL \notin ValidServerURLs
    /\ last.err = "nil"

\* C5: on the NoopTracer span creation returns the shared NoopSpan and
\* starts nothing on the engine, reads no clock and allocates no span; on
\* another Tracer t it starts a span on t's engine with the given name and
\* the span's back-reference is t.
C5_SpanDispatch ==
    /\ engines[1].started = 1
    /\ Len(madeBy) = Len(spans)
    /\ \A w \in Workers :
          /\ pc[w] = "start" => ~IsNoopTracer(local[w].t)
          /\ pc[w] = "idle" => local[w] = NoLocal
    /\ \A sp \in Started :
          /\ madeBy[sp].recv # NoopTracer
          /\ spans[sp].tracer = madeBy[sp].recv
          /\ spans[sp].Span.engine = tracers[madeBy[sp].recv].tracer
          /\ spans[sp].Span.engine # 1
          /\ spans[sp].Span.name = madeBy[sp].name
    /\ last.op \in SpanOps =>
          IF last.recv = NoopTracer
          THEN last.ret = NoopSpan
          ELSE last.ret \in Started /\ spans[last.ret].tracer = last.recv

C5_Witness ==
    /\ \E sp \in Started : spans[sp].tracer = 3 /\ spans[sp].Span.name = "a"
    /\ \E w \in Workers : held[w] = NoopSpan
    /\ last.op \in SpanOps /\ last.recv = NoopTracer

\* A step that is a call of Tracer.Close.
CloseStep ==
    /\ last'.op = "Close"
    /\ \/ last' # last
       \/ \E r \in 1..Len(reporters) :
             reporters'[r].closeCalls # reporters[r].closeCalls

\* C6: Close on a Tracer with a closer calls the closer's Close once and
\* returns what it returned; on the NoopTracer it returns no error and
\* closes nothing; NoopTracer and NoopSpan never change.
C6_Close ==
    /\ [](tracers[NoopTracer] = NoopTracerRec /\ spans[NoopSpan] = NoopSpanRec)
    /\ [][CloseStep =>
            LET t == last'.recv
                c == tracers[t].closer
            IN IF c # 0
               THEN /\ reporters'[c].closeCalls = reporters[c].closeCalls + 1
                    /\ last'.err = reporters'[c].closeResult
                    /\ \A r \in 1..Len(reporters) :
                         r # c => reporters'[r] = reporters[r]
               ELSE /\ t = NoopTracer
                    /\ last'.err = "nil"
                    /\ reporters' = reporters
                    /\ tracers' = tracers /\ spans' = spans]_vars

C6_Witness ==
    /\ last.op = "Close" /\ last.recv \in Built /\ last.err = "errClose"
    /\ reporters[tracers[last.recv].closer].closeCalls = 1
    /\ Len(spans) > 1

\* The spans of tracer t that were finalized.
FinishedOf(t) == {sp \in Started : spans[sp].tracer = t /\ spans[sp].Span.finished}

\* C7: New selects the discarding Reporter exactly when disableReport is
\* set and the HTTP Reporter to serverURL otherwise; for a Tracer built
\* with disableReport and sampleRate 1 every span is created, timed and
\* handed to the Reporter, and nothing is ever queued or transmitted.
C7_NoTransmission ==
    \A t \in Built :
       LET z == ZOf(specOf[t])
           r == engines[tracers[t].tracer].reporter
       IN /\ r = tracers[t].closer
          /\ z.DisableReport => reporters[r].kind = "noop"
          /\ ~z.DisableReport =>
                (reporters[r].kind = "http" /\ reporters[r].url = z.ServerURL)
          /\ z.DisableReport =>
                (reporters[r].transmitted = 0 /\ reporters[r].queue = 0)
          /\ (z.DisableReport /\ z.SampleRate = 100000) =>
                /\ reporters[r].sends = Cardinality(FinishedOf(t))
                /\ \A sp \in Started : spans[sp].tracer = t =>
                      (spans[sp].Span.sampled /\ spans[sp].Span.start \in Times \cup 0..MaxClock)

C7_Witness ==
    \E t \in Built :
       /\ ZOf(specOf[t]).DisableReport /\ ZOf(specOf[t]).SampleRate = 100000
       /\ Cardinality(FinishedOf(t)) = 2
       /\ reporters[tracers[t].closer].sends = 2
       /\ reporters[tracers[t].closer].transmitted = 0

\* C8: a span made by NewSpanWithStart starts at the caller's startAt, past
\* or future; a span made by NewSpan starts at the clock reading of the call.
C8_StartTime ==
    \A sp \in Started :
       /\ madeBy[sp].op \in SpanOps
       /\ madeBy[sp].op = "NewSpanWithStart" =>
             spans[sp].Span.start = madeBy[sp].startAt
       /\ madeBy[sp].op = "NewSpan" =>
             (spans[sp].Span.start = madeBy[sp].now /\ madeBy[sp].now <= clock)

C8_Witness ==
    \E p, f \in Started :
       /\ madeBy[p].op = "NewSpanWithStart" /\ madeBy[f].op = "NewSpanWithStart"
       /\ madeBy[p].startAt < madeBy[p].now /\ spans[p].Span.start = madeBy[p].startAt
       /\ madeBy[f].startAt > clock /\ spans[f].Span.start = madeBy[f].startAt

\* C9 as claimed: two units of work never hold the same Span object,
\* whatever Tracer returned by New they obtained it from.
C9_Original ==
    \A w1, w2 \in Workers :
       (w1 # w2 /\ held[w1] # 0 /\ held[w2] # 0) => held[w1] # held[w2]

\* C9 amended: two units of work that obtained their spans from Tracers
\* other than the NoopTracer never hold the same Span object; the only Span
\* two units of work can hold together is the shared NoopSpan, which is what
\* the NoopTracer (New's result for an absent spec) hands out.
C9_Amended ==
    /\ \A w1, w2 \in Workers :
          (w1 # w2 /\ held[w1] # 0 /\ held[w1] = held[w2]) =>
             held[w1] = NoopSpan
    /\ \A w \in Workers :
          held[w] # 0 =>
             /\ held[w] \in 1..Len(spans)
             /\ held[w] = NoopSpan <=> spans[held[w]].tracer = NoopTracer

C9_Witness ==
    \E w1, w2 \in Workers :
       /\ w1 # w2 /\ held[w1] \in Started /\ held[w2] \in Started
       /\ held[w1] # held[w2]
       /\ spans[held[w1]].tracer = spans[held[w2]].tracer

\* C10: New terminates without crashing and returns either a Tracer and no
\* error or no Tracer and an error, for every spec value.
C10_Total ==
    last.op = "New" =>
       /\ ~crashed
       /\ \/ last.ret # 0 /\ last.err = "nil"
          \/ last.ret = 0 /\ last.err # "nil"

====
